---- MODULE Spec2Model ----
(***************************************************************************)
(* Model of the Morpho vault monitoring bot:                               *)
(*   src/bot.py          the long-running variant (MorphoMonitor)          *)
(*   src/send_update.py  the single-shot variant (main) and its helpers    *)
(*                                                                         *)
(* Conventions.  Python's None is the empty sequence << >> and a present   *)
(* value v is the one-element sequence << v >>.  A float is an exact       *)
(* fraction << n, d >> in lowest terms with d > 0.  Raw fixed-point token  *)
(* amounts are counted in units of 10^RawUnitExp, so that dividing by      *)
(* 10^18 is a division by 10^(18 - RawUnitExp).                            *)
(***************************************************************************)
EXTENDS Integers, Sequences, FiniteSets, TLC

VARIABLES
    prog,       \* which program of the repository runs: "bot", "shot" or "calc"
    cPc,        \* helpers: "input" until both helpers have been applied
    cCurrent,   \* helpers: the `current` argument of compute_delta
    cData,      \* helpers: the `data` argument, a list of points
    cDecimals,  \* helpers: the `decimals` argument
    avgRes,     \* helpers: << >> before the call, << result >> after it
    deltaRes,   \* helpers: << >> before the call, << result >> after it
    envToken,   \* TELEGRAM_BOT_TOKEN in the environment: "absent", "empty", "set"
    envChat,    \* TELEGRAM_CHAT_ID in the environment: "absent", "empty", "set"
    sPc,        \* single-shot main: "start", "posting", "sending", "done", "failed"
    sResp,      \* single-shot: the provider's answer to the one request
    sErr,       \* single-shot: the exception that left main, "none" if none
    sFieldsRead,    \* single-shot: a vault or market field has been read
    sRequests,      \* single-shot: provider requests made
    sSendAttempts,  \* single-shot: calls of bot.send_message
    sSendOutcome,   \* single-shot: "none", "ok" or "error" of the send
    sMsg,           \* single-shot: None, or Some(message text built)
    bPc,        \* bot: "init", "config_error", "initial_cycle", "running",
                \*      "exited" (interrupted) or "crashed" (run() raised)
    chatId,     \* bot: self.chat_id, "none" before __init__
    timerArmed, \* bot: the scheduler is started and the job's timer is set
    schedulerShutdown,  \* bot: scheduler.shutdown() has been called
    clientClosed,       \* bot: http_client.aclose() has been awaited
    cycles,     \* bot: the executions of send_update, by number
    nStarted,   \* bot: executions of send_update started so far
    lastDone,   \* bot: what the execution that ended last did
    lastTick,   \* bot: "none", or what the last timer tick did
    interruptedAt   \* bot: "none", or bPc when the interrupt arrived

calcVars == << cPc, cCurrent, cData, cDecimals, avgRes, deltaRes >>
envVars == << envToken, envChat >>
shotVars == << sPc, sResp, sErr, sFieldsRead, sRequests, sSendAttempts,
               sSendOutcome, sMsg >>

botVars == << bPc, chatId, timerArmed, schedulerShutdown, clientClosed, cycles,
              nStarted, lastDone, lastTick, interruptedAt >>

vars == << prog, calcVars, envVars, shotVars, botVars >>

-----------------------------------------------------------------------------
(* Bounds of the model.                                                    *)

MaxLen == 3         \* longest list of points handed to a helper
HistLen == 2        \* hourly points the provider returns for the widest window
MaxCycles == 3      \* executions of send_update the bot starts
RawUnitExp == 17    \* raw fixed-point amounts are counted in units of 10^17

(* Program constants.                                                      *)

TokenDecimals == 18 \* decimals=18 at the compute_delta call sites

-----------------------------------------------------------------------------
(* Exact arithmetic standing for Python floats.                            *)

None == << >>
Some(v) == << v >>

Abs(x) == IF x < 0 THEN -x ELSE x

RECURSIVE GCD(_, _)
GCD(a, b) == IF b = 0 THEN a ELSE GCD(b, a % b)

Frac(n, d) ==
    LET g == GCD(Abs(n), Abs(d))
        s == IF d < 0 THEN -1 ELSE 1
    IN  << (s * n) \div g, (s * d) \div g >>

FAdd(a, b) == Frac(a[1] * b[2] + b[1] * a[2], a[2] * b[2])
FSub(a, b) == Frac(a[1] * b[2] - b[1] * a[2], a[2] * b[2])
FDiv(a, b) == Frac(a[1] * b[2], a[2] * b[1])
FIsZero(a) == a[1] = 0

RECURSIVE Pow10(_)
Pow10(k) == IF k <= 0 THEN 1 ELSE 10 * Pow10(k - 1)

RECURSIVE sum(_)
sum(values) ==
    IF values = << >> THEN Frac(0, 1) ELSE FAdd(Head(values), sum(Tail(values)))

-----------------------------------------------------------------------------
(* send_update.py: the time-series helpers.                                *)

(* A point is [y |-> None] or [y |-> Some(raw)].                           *)
RECURSIVE get_timeseries_values_zero(_, _)
get_timeseries_values_zero(data, decimals) ==
    IF data = << >> THEN << >>
    ELSE LET y == Head(data).y
             rest == get_timeseries_values_zero(Tail(data), decimals)
         IN  IF y = None THEN << Frac(0, 1) >> \o rest
             ELSE IF decimals > 0
                  THEN << Frac(y[1], Pow10(decimals - RawUnitExp)) >> \o rest
                  ELSE << Frac(y[1], 1) >> \o rest

RECURSIVE get_timeseries_values(_, _)
get_timeseries_values(data, decimals) ==
    IF data = << >> THEN << >>
    ELSE LET y == Head(data).y
             rest == get_timeseries_values(Tail(data), decimals)
         IN  IF y = None THEN rest
             ELSE IF decimals > 0
                  THEN << Frac(y[1], Pow10(decimals - RawUnitExp)) >> \o rest
                  ELSE << Frac(y[1], 1) >> \o rest

compute_average(data, decimals) ==
    LET values == get_timeseries_values(data, decimals)
    IN  IF values # << >>
        THEN Some(FDiv(sum(values), Frac(Len(values), 1)))
        ELSE None

compute_delta_newest(current, data, decimals) ==
    LET values == get_timeseries_values(data, decimals)
    IN  IF values = << >> THEN None
        ELSE LET oldest == values[1]
             IN  IF FIsZero(oldest) THEN None
                 ELSE LET abs_delta == FSub(current, oldest)
                          pct_delta == FDiv(abs_delta, oldest)
                      IN  Some(<< abs_delta, pct_delta >>)

compute_delta(current, data, decimals) ==
    LET values == get_timeseries_values(data, decimals)
    IN  IF values = << >> THEN None
        ELSE LET oldest == values[Len(values)]
             IN  IF FIsZero(oldest) THEN None
                 ELSE LET abs_delta == FSub(current, oldest)
                          pct_delta == FDiv(abs_delta, oldest)
                      IN  Some(<< abs_delta, pct_delta >>)

-----------------------------------------------------------------------------
(* send_update.py: the formatting helpers.  A rendered number is the       *)
(* integer its digits spell: "12.34%" is << "rate", 1234 >>, "+1,234" is   *)
(* << "+", 1234 >>.  Python rounds a formatted float half to even.         *)

RoundHalfEven(f) ==
    LET q == f[1] \div f[2]
        r == f[1] % f[2]
    IN  IF 2 * r < f[2] THEN q
        ELSE IF 2 * r > f[2] THEN q + 1
        ELSE IF q % 2 = 0 THEN q ELSE q + 1

format_pct(value) ==
    << "rate", RoundHalfEven(Frac(value[1] * 10000, value[2])) >>

format_delta(value) ==
    LET sign == IF value[1] >= 0 THEN "+" ELSE ""
    IN  << sign, RoundHalfEven(value) >>

format_delta_pct(value) ==
    LET sign == IF value[1] >= 0 THEN "+" ELSE ""
    IN  << sign, RoundHalfEven(Frac(value[1] * 10000, value[2])) >>

format_deposit_delta(delta) ==
    IF delta = None THEN << "N/A" >>
    ELSE LET abs_d == delta[1][1]
             pct_d == delta[1][2]
         IN  << "delta", format_delta_pct(pct_d), format_delta(abs_d) >>

(* `format_pct(avg) if avg else "N/A"`: the truth value of a float or None *)
Truthy(avg) == avg # None /\ ~FIsZero(avg[1])

format_average(avg) ==
    IF Truthy(avg) THEN format_pct(avg[1]) ELSE << "N/A" >>

-----------------------------------------------------------------------------
(* The provider's answers.  http is "transport_error" (no answer, or a     *)
(* timeout), "non2xx" or "ok"; errors says that the body has a top-level   *)
(* `errors` entry; data is "null" or "object"; vault says that data.vault  *)
(* is an object; market is "absent" (null), "nostate" (state null) or      *)
(* "full".  total is the vault's raw totalAssets; hist holds the hourly    *)
(* series, newest first, of totalAssets, avgNetApy and borrowApy.          *)

EmptyHist == [assets |-> << >>, apy |-> << >>, borrow |-> << >>]

Response(http, errors, data, vault, market, total, hist) ==
    [http |-> http, errors |-> errors, data |-> data, vault |-> vault,
     market |-> market, total |-> total, hist |-> hist]

NoResponse == Response("none", FALSE, "null", FALSE, "absent", 0, EmptyHist)

Bodies ==
    {Response("ok", e, "null", FALSE, "absent", 0, EmptyHist) : e \in BOOLEAN}
    \cup {Response("ok", e, "object", v, m, 10, EmptyHist) :
            e \in BOOLEAN, v \in BOOLEAN, m \in {"absent", "nostate", "full"}}

Responses ==
    {Response("transport_error", FALSE, "null", FALSE, "absent", 0, EmptyHist),
     Response("non2xx", FALSE, "null", FALSE, "absent", 0, EmptyHist)}
    \cup Bodies

Complete(resp) ==
    /\ resp.http = "ok"
    /\ resp.data = "object"
    /\ resp.vault
    /\ resp.market = "full"

HistLists(values) ==
    UNION {[1..n -> {[y |-> None]} \cup {[y |-> Some(v)] : v \in values}] :
             n \in 0..HistLen}

Hists ==
    [assets : HistLists({0, 10}), apy : HistLists({0, 1}),
     borrow : HistLists({0, 1})]

(* The answers to the single-shot query, which also asks for the history:  *)
(* only a complete answer without an `errors` entry has a history that     *)
(* main comes to read.                                                     *)
ShotResponses ==
    Responses
    \cup {Response("ok", FALSE, "object", TRUE, "full", t, h) :
            t \in {10, 20}, h \in Hists}

(* build_query asks for three windows that all end now and start 7200,     *)
(* 43200 and 86400 seconds earlier: each is a prefix of the newest-first   *)
(* hourly series.                                                          *)
WindowPoints(w) ==
    CASE w = "1h" -> 1
      [] w = "12h" -> 2
      [] w = "24h" -> HistLen

Window(series, w) ==
    SubSeq(series, 1, IF Len(series) < WindowPoints(w) THEN Len(series)
                      ELSE WindowPoints(w))

Windows == << "1h", "12h", "24h" >>

-----------------------------------------------------------------------------
(* send_update.py: main.                                                   *)

VaultSections == {"title", "name", "total_deposits", "apy_breakdown", "timestamp"}
MarketSections == {"market"}
HistVaultSections == {"deposit_changes", "avg_total_apy"}
HistMarketSections == {"avg_borrow_rate"}

NoLines == << << "N/A" >>, << "N/A" >>, << "N/A" >> >>

Message(sections, changes, avg_apy, avg_borrow) ==
    [sections |-> sections, changes |-> changes, avg_apy |-> avg_apy,
     avg_borrow |-> avg_borrow]

ShotConfigOk(token, chat) == token = "set" /\ chat = "set"

Outcome(pc, err, read, msg) == [pc |-> pc, err |-> err, read |-> read, msg |-> msg]

(* Lines 142-232: from the answer to the message, or to the exception.     *)
main_body(resp) ==
    IF resp.http = "transport_error"
    THEN Outcome("failed", "TransportError", FALSE, None)
    ELSE IF resp.http = "non2xx"
    THEN Outcome("failed", "HTTPStatusError", FALSE, None)
    ELSE IF resp.errors
    THEN Outcome("failed", "GraphQLErrors", FALSE, None)
    ELSE IF resp.data = "null" \/ ~resp.vault
    THEN Outcome("failed", "TypeError", FALSE, None)
    ELSE IF resp.market # "full"
    THEN Outcome("failed", "TypeError", TRUE, None)
    ELSE
      LET total_assets_raw == Frac(resp.total, Pow10(TokenDecimals - RawUnitExp))
          delta(w) == compute_delta(total_assets_raw,
                                    Window(resp.hist.assets, w), TokenDecimals)
          avg_apy(w) == compute_average(Window(resp.hist.apy, w), 0)
          avg_borrow(w) == compute_average(Window(resp.hist.borrow, w), 0)
      IN  Outcome("sending", "none", TRUE,
            Some(Message(
              VaultSections \cup MarketSections \cup HistVaultSections
                  \cup HistMarketSections,
              [i \in 1..3 |-> format_deposit_delta(delta(Windows[i]))],
              [i \in 1..3 |-> format_average(avg_apy(Windows[i]))],
              [i \in 1..3 |-> format_average(avg_borrow(Windows[i]))])))

(* Lines 234-237: one send; its exception is not caught.                   *)
main_send_swallowed(outcome) ==
    Outcome("done", "none", TRUE, None)

main_send(outcome) ==
    IF outcome = "ok" THEN Outcome("done", "none", TRUE, None)
    ELSE Outcome("failed", "TelegramError", TRUE, None)

EnvValues == {"absent", "empty", "set"}

ShotInit ==
    /\ prog = "shot"
    /\ envToken \in EnvValues
    /\ envChat \in EnvValues
    /\ sPc = "start"
    /\ sResp = NoResponse
    /\ sErr = "none"
    /\ sFieldsRead = FALSE
    /\ sRequests = 0
    /\ sSendAttempts = 0
    /\ sSendOutcome = "none"
    /\ sMsg = None

(* Lines 136-146: the settings are checked, then the request is made.      *)
ShotStart ==
    /\ prog = "shot"
    /\ sPc = "start"
    /\ IF ShotConfigOk(envToken, envChat)
       THEN /\ sPc' = "posting"
            /\ sRequests' = sRequests + 1
            /\ sErr' = sErr
       ELSE /\ sPc' = "failed"
            /\ sErr' = "ValueError"
            /\ sRequests' = sRequests
    /\ UNCHANGED << prog, calcVars, envVars, botVars, sResp, sFieldsRead,
                    sSendAttempts, sSendOutcome, sMsg >>

ShotResponse ==
    /\ prog = "shot"
    /\ sPc = "posting"
    /\ \E resp \in ShotResponses :
          \E o \in {main_body(resp)} :
          /\ sResp' = resp
          /\ sPc' = o.pc
          /\ sErr' = o.err
          /\ sFieldsRead' = o.read
          /\ sMsg' = o.msg
    /\ UNCHANGED << prog, calcVars, envVars, botVars, sRequests, sSendAttempts,
                    sSendOutcome >>

ShotSend ==
    /\ prog = "shot"
    /\ sPc = "sending"
    /\ \E outcome \in {"ok", "error"} :
          \E o \in {main_send(outcome)} :
          /\ sSendOutcome' = outcome
          /\ sSendAttempts' = sSendAttempts + 1
          /\ sPc' = o.pc
          /\ sErr' = o.err
    /\ UNCHANGED << prog, calcVars, envVars, botVars, sResp, sFieldsRead,
                    sRequests, sMsg >>

ShotNext == ShotStart \/ ShotResponse \/ ShotSend

-----------------------------------------------------------------------------
(* bot.py: MorphoMonitor.                                                  *)

(* Lines 65-70: the token is required, the chat id has a default.          *)
BotConfigOk_any(token) == TRUE

BotConfigOk(token) == token = "set"

chat_id(chat) == IF chat = "absent" THEN "@machilassab" ELSE chat

(* Lines 77-95: every failure to get the data object is logged and becomes *)
(* None; an `errors` entry is looked for before `data` is.                 *)
fetch_data_ignoring_errors(resp) ==
    IF resp.http # "ok" THEN None
    ELSE IF resp.data = "null" THEN None
    ELSE Some([vault |-> resp.vault, market |-> resp.market])

fetch_data(resp) ==
    IF resp.http # "ok" THEN None
    ELSE IF resp.errors THEN None
    ELSE IF resp.data = "null" THEN None
    ELSE Some([vault |-> resp.vault, market |-> resp.market])

(* Lines 120-181: from the answer to the message, or to the early return.  *)
send_update_body(resp) ==
    LET data == fetch_data(resp) IN
    IF data = None THEN Outcome("skipped", "no_data", FALSE, None)
    ELSE IF ~data[1].vault THEN Outcome("skipped", "no_vault", FALSE, None)
    ELSE Outcome("sending", "none", TRUE,
           Some(Message(
             VaultSections \cup
                 (IF data[1].market = "full" THEN MarketSections ELSE {}),
             NoLines, NoLines, NoLines)))

(* Lines 183-191: a TelegramError of the send is logged, not raised.       *)
send_update_deliver_uncaught(outcome) ==
    IF outcome = "ok" THEN "sent" ELSE "raised"

send_update_deliver(outcome) ==
    IF outcome = "ok" THEN "sent" ELSE "send_failed"

(* Lines 205-210: add_job leaves max_instances at the scheduler's default. *)
max_instances == 1

can_submit_always(running) == TRUE

can_submit(running) == running < max_instances

Cycles == 1..MaxCycles

IdleCycle == [pc |-> "idle", by |-> "none", resp |-> NoResponse, msg |-> None]

Finished(pc, by) == [pc |-> pc, by |-> by, resp |-> NoResponse, msg |-> None]

NoneDone ==
    [n |-> 0, by |-> "none", result |-> "none", resp |-> NoResponse,
     read |-> FALSE, msg |-> None, chat |-> "none"]

InFlight == {i \in Cycles : cycles[i].pc \in {"fetching", "sending"}}

Alive == bPc \in {"initial_cycle", "running"}

BotInit ==
    /\ prog = "bot"
    /\ envToken \in EnvValues
    /\ envChat \in EnvValues
    /\ bPc = "init"
    /\ chatId = "none"
    /\ timerArmed = FALSE
    /\ schedulerShutdown = FALSE
    /\ clientClosed = FALSE
    /\ cycles = [i \in Cycles |-> IdleCycle]
    /\ nStarted = 0
    /\ lastDone = NoneDone
    /\ lastTick = "none"
    /\ interruptedAt = "none"

BotIdle ==
    /\ bPc = "init"
    /\ chatId = "none"
    /\ timerArmed = FALSE
    /\ schedulerShutdown = FALSE
    /\ clientClosed = FALSE
    /\ cycles = [i \in Cycles |-> IdleCycle]
    /\ nStarted = 0
    /\ lastDone = NoneDone
    /\ lastTick = "none"
    /\ interruptedAt = "none"

(* Lines 224-226 with 64-75 and 193-201: the monitor is constructed, and   *)
(* run() starts the initial cycle and awaits it.                           *)
BotStart ==
    /\ prog = "bot"
    /\ bPc = "init"
    /\ IF BotConfigOk(envToken)
       THEN /\ bPc' = "initial_cycle"
            /\ chatId' = chat_id(envChat)
            /\ nStarted' = 1
            /\ cycles' = [cycles EXCEPT ![1] =
                            [pc |-> "fetching", by |-> "run",
                             resp |-> NoResponse, msg |-> None]]
       ELSE /\ bPc' = "config_error"
            /\ UNCHANGED << chatId, nStarted, cycles >>
    /\ UNCHANGED << prog, calcVars, envVars, shotVars, timerArmed,
                    schedulerShutdown, clientClosed, lastDone, lastTick,
                    interruptedAt >>

(* The end of cycle i.  run() awaits the initial cycle: when it returns,   *)
(* lines 204-217 start the scheduler and enter the sleep loop, and when it *)
(* raises, the exception leaves run() and main().  A job's exception is    *)
(* logged by the scheduler's executor.                                     *)
Complete_cycle(i, result, o) ==
    /\ cycles' = [cycles EXCEPT ![i] = Finished(o.pc, cycles[i].by)]
    /\ lastDone' = [n |-> i, by |-> cycles[i].by, result |-> result,
                    resp |-> o.resp, read |-> o.read, msg |-> o.msg,
                    chat |-> chatId]
    /\ IF cycles[i].by = "run"
       THEN IF result = "raised"
            THEN bPc' = "crashed" /\ timerArmed' = timerArmed
            ELSE bPc' = "running" /\ timerArmed' = TRUE
       ELSE UNCHANGED << bPc, timerArmed >>

(* Lines 120-181 of cycle i, from the provider's answer on.                *)
BotCycleFetched(i) ==
    /\ prog = "bot"
    /\ Alive
    /\ cycles[i].pc = "fetching"
    /\ \E resp \in Responses :
          \E o \in {send_update_body(resp)} :
          IF o.pc = "sending"
          THEN /\ cycles' = [cycles EXCEPT ![i] =
                               [pc |-> "sending", by |-> cycles[i].by,
                                resp |-> resp, msg |-> o.msg]]
               /\ UNCHANGED << bPc, timerArmed, lastDone >>
          ELSE Complete_cycle(i, o.err,
                 [pc |-> o.pc, resp |-> resp, read |-> o.read, msg |-> o.msg])
    /\ UNCHANGED << prog, calcVars, envVars, shotVars, chatId,
                    schedulerShutdown, clientClosed, nStarted, lastTick,
                    interruptedAt >>

(* Lines 183-191 of cycle i, from the answer of the messaging API on.      *)
BotCycleSent(i) ==
    /\ prog = "bot"
    /\ Alive
    /\ cycles[i].pc = "sending"
    /\ \E outcome \in {"ok", "error"} :
          \E r \in {send_update_deliver(outcome)} :
          Complete_cycle(i, r,
            [pc |-> r, resp |-> cycles[i].resp, read |-> TRUE,
             msg |-> cycles[i].msg])
    /\ UNCHANGED << prog, calcVars, envVars, shotVars, chatId,
                    schedulerShutdown, clientClosed, nStarted, lastTick,
                    interruptedAt >>

(* The interval trigger fires: the job is submitted unless max_instances   *)
(* of it are running, and then this run is skipped with a warning.         *)
TickStart ==
    /\ prog = "bot"
    /\ bPc = "running"
    /\ timerArmed
    /\ can_submit(Cardinality(InFlight))
    /\ nStarted < MaxCycles
    /\ nStarted' = nStarted + 1
    /\ cycles' = [cycles EXCEPT ![nStarted + 1] =
                    [pc |-> "fetching", by |-> "timer", resp |-> NoResponse,
                     msg |-> None]]
    /\ lastTick' = "submitted"
    /\ UNCHANGED << prog, calcVars, envVars, shotVars, bPc, chatId, timerArmed,
                    schedulerShutdown, clientClosed, lastDone, interruptedAt >>

TickSkip ==
    /\ prog = "bot"
    /\ bPc = "running"
    /\ timerArmed
    /\ ~can_submit(Cardinality(InFlight))
    /\ lastTick' = "skipped"
    /\ UNCHANGED << prog, calcVars, envVars, shotVars, bPc, chatId, timerArmed,
                    schedulerShutdown, clientClosed, cycles, nStarted, lastDone,
                    interruptedAt >>

Cancel_in_flight ==
    [i \in Cycles |-> IF i \in InFlight THEN Finished("cancelled", cycles[i].by)
                      ELSE cycles[i]]

(* An interrupt while run() awaits the initial cycle (line 201) is outside *)
(* the try statement: it ends the process.                                 *)
InterruptInitial ==
    /\ prog = "bot"
    /\ bPc = "initial_cycle"
    /\ bPc' = "exited"
    /\ interruptedAt' = "initial_cycle"
    /\ cycles' = Cancel_in_flight
    /\ UNCHANGED << prog, calcVars, envVars, shotVars, chatId, timerArmed,
                    schedulerShutdown, clientClosed, nStarted, lastDone,
                    lastTick >>

(* An interrupt in the sleep loop (lines 215-221).  Where it surfaces is   *)
(* the runtime's choice.  "handler": KeyboardInterrupt or SystemExit is    *)
(* raised inside the try statement; the handler calls scheduler.shutdown() *)
(* (the timer is removed and the executor cancels the running job) and     *)
(* closes the HTTP client.  "cancelled": the event loop's runner cancels   *)
(* the main task, or the exception is raised outside the try statement:    *)
(* `await asyncio.sleep(1)` raises CancelledError, which the except clause *)
(* does not name, and the process ends with the handler not run.           *)
InterruptRunning ==
    /\ prog = "bot"
    /\ bPc = "running"
    /\ \E surfaced \in {"handler", "cancelled"} :
          /\ schedulerShutdown' = (surfaced = "handler")
          /\ clientClosed' = (surfaced = "handler")
          /\ timerArmed' = IF surfaced = "handler" THEN FALSE ELSE timerArmed
    /\ bPc' = "exited"
    /\ interruptedAt' = "running"
    /\ cycles' = Cancel_in_flight
    /\ UNCHANGED << prog, calcVars, envVars, shotVars, chatId, nStarted,
                    lastDone, lastTick >>

BotNext ==
    \/ BotStart
    \/ \E i \in Cycles : BotCycleFetched(i)
    \/ \E i \in Cycles : BotCycleSent(i)
    \/ TickStart
    \/ TickSkip
    \/ InterruptInitial
    \/ InterruptRunning

ShotIdle ==
    /\ envToken = "set"
    /\ envChat = "set"
    /\ sPc = "start"
    /\ sResp = NoResponse
    /\ sErr = "none"
    /\ sFieldsRead = FALSE
    /\ sRequests = 0
    /\ sSendAttempts = 0
    /\ sSendOutcome = "none"
    /\ sMsg = None

CalcIdle ==
    /\ cPc = "input"
    /\ cCurrent = Frac(0, 1)
    /\ cData = << >>
    /\ cDecimals = 0
    /\ avgRes = << >>
    /\ deltaRes = << >>

-----------------------------------------------------------------------------
(* The helpers applied to bounded inputs.                                  *)

RawValues == {-10, 0, 10, 20, 30}
Points == {[y |-> None]} \cup {[y |-> Some(v)] : v \in RawValues}
PointLists == UNION {[1..n -> Points] : n \in 0..MaxLen}
Currents == {Frac(0, 1), Frac(10, 1), Frac(40, 1)}

CalcInit ==
    /\ prog = "calc"
    /\ cPc = "input"
    /\ cCurrent \in Currents
    /\ cData \in PointLists
    /\ cDecimals \in {0, TokenDecimals}
    /\ avgRes = << >>
    /\ deltaRes = << >>
    /\ ShotIdle
    /\ BotIdle

CallComputeAverage ==
    /\ prog = "calc"
    /\ avgRes = << >>
    /\ avgRes' = << compute_average(cData, cDecimals) >>
    /\ cPc' = IF deltaRes # << >> THEN "done" ELSE cPc
    /\ UNCHANGED << prog, cCurrent, cData, cDecimals, deltaRes, envVars, shotVars, botVars >>

CallComputeDelta ==
    /\ prog = "calc"
    /\ deltaRes = << >>
    /\ deltaRes' = << compute_delta(cCurrent, cData, cDecimals) >>
    /\ cPc' = IF avgRes # << >> THEN "done" ELSE cPc
    /\ UNCHANGED << prog, cCurrent, cData, cDecimals, avgRes, envVars, shotVars, botVars >>

CalcNext == CallComputeAverage \/ CallComputeDelta

SpecCalc == CalcInit /\ [][CalcNext]_vars

ShotUnused ==
    /\ sPc = "start"
    /\ sResp = NoResponse
    /\ sErr = "none"
    /\ sFieldsRead = FALSE
    /\ sRequests = 0
    /\ sSendAttempts = 0
    /\ sSendOutcome = "none"
    /\ sMsg = None

Init ==
    \/ ShotInit /\ CalcIdle /\ BotIdle
    \/ BotInit /\ CalcIdle /\ ShotUnused

Next == ShotNext \/ BotNext

Spec == Init /\ [][Next]_vars

(* The long-running variant alone.                                         *)
BotAlone ==
    /\ prog = "bot"
    /\ Init

BotSpec == BotAlone /\ [][BotNext]_vars

(* The provider and the messaging API answer or time out within their 30   *)
(* second limits, and the interval trigger keeps firing.                   *)
FairBotSpec ==
    /\ BotSpec
    /\ \A i \in Cycles : WF_vars(BotCycleFetched(i))
    /\ \A i \in Cycles : WF_vars(BotCycleSent(i))
    /\ WF_vars(TickStart)

(* The single-shot variant alone.                                          *)
ShotAlone ==
    /\ prog = "shot"
    /\ Init

ShotSpec == ShotAlone /\ [][ShotNext]_vars

-----------------------------------------------------------------------------
(* What the helpers' arguments say, read off the list of points directly.  *)

Valued == {i \in 1..Len(cData) : cData[i].y # None}
OldestIdx == CHOOSE i \in Valued : \A j \in Valued : j <= i
Scale == IF cDecimals > 0 THEN Pow10(cDecimals - RawUnitExp) ELSE 1

RECURSIVE RawSum(_)
RawSum(S) ==
    IF S = {} THEN 0
    ELSE LET i == CHOOSE j \in S : TRUE IN cData[i].y[1] + RawSum(S \ {i})

(* C7: compute_delta discards the points without a value; it is None when  *)
(* none remain or the last remaining point is exactly zero; otherwise it   *)
(* is (current - oldest, (current - oldest) / oldest) for the last         *)
(* remaining point, so points [30, 20, 10] and current 40 give (30, 3.0).  *)
C7_DeltaOldest ==
    deltaRes # << >> =>
        LET r == deltaRes[1] IN
        /\ (Valued = {} \/ (Valued # {} /\ cData[OldestIdx].y[1] = 0)) <=> r = None
        /\ r # None =>
              LET old == cData[OldestIdx].y[1]
                  a == r[1][1]
                  p == r[1][2]
              IN  /\ a[1] * cCurrent[2] * Scale
                        = (cCurrent[1] * Scale - old * cCurrent[2]) * a[2]
                  /\ p[1] * old * a[2] = a[1] * Scale * p[2]
        /\ ( /\ cData = << [y |-> Some(30)], [y |-> Some(20)], [y |-> Some(10)] >>
             /\ cCurrent = Frac(40, 1)
             /\ cDecimals = 0 )
           => r = Some(<< Frac(30, 1), Frac(3, 1) >>)

C7_Witness ==
    /\ deltaRes = << None >>
    /\ cData = << [y |-> Some(10)], [y |-> Some(0)], [y |-> None] >>
    /\ cCurrent = Frac(40, 1)

(* C8: compute_average is None over an empty list or a list whose points   *)
(* all lack a value, and otherwise the arithmetic mean of exactly the      *)
(* points that have a value (absent values are in neither sum nor count).  *)
C8_AverageOfValued ==
    avgRes # << >> =>
        LET r == avgRes[1] IN
        /\ Valued = {} <=> r = None
        /\ r # None =>
              r[1][1] * Cardinality(Valued) * Scale = RawSum(Valued) * r[1][2]

C8_Witness ==
    /\ avgRes = << Some(Frac(15, 1)) >>
    /\ cDecimals = 0
    /\ cData = << [y |-> None], [y |-> Some(10)], [y |-> Some(20)] >>

-----------------------------------------------------------------------------
(* Properties of the two variants.                                         *)

GoodResp(r) == r.http = "ok" /\ ~r.errors /\ r.data = "object" /\ r.vault

Ended == {"sent", "skipped", "send_failed", "raised"}

(* C1: in the long-running variant a cycle that ends without a delivery    *)
(* (the provider unreachable or timing out, a non-2xx status, an `errors`  *)
(* entry, no vault object, a failed send), the initial cycle included,     *)
(* leaves the process running with the timer armed, and the next cycle     *)
(* starts at a later tick unless the process is interrupted first.         *)
C1_FailureContained ==
    /\ [][\A i \in Cycles :
            ( /\ i \in InFlight
              /\ cycles'[i].pc \in Ended
              /\ cycles'[i].pc # "sent" )
            => (bPc' = "running" /\ timerArmed')]_vars
    /\ \A n \in 1..(MaxCycles - 1) :
          ( /\ lastDone.n = n
            /\ lastDone.result # "sent"
            /\ nStarted = n )
          ~> (nStarted > n \/ bPc = "exited")

C1_Witness ==
    /\ lastDone.n = 1
    /\ lastDone.by = "run"
    /\ lastDone.result = "send_failed"
    /\ bPc = "running"
    /\ timerArmed
    /\ nStarted = 2
    /\ cycles[2].pc = "fetching"

(* C2: in the single-shot variant a non-2xx status, an `errors` entry, an  *)
(* absent vault object and a failed send each leave main as an exception:  *)
(* the invocation ends failed, never with "Update sent", and the send is   *)
(* attempted at most once.                                                 *)
ShotErrorOccurred ==
    \/ sResp.http \in {"transport_error", "non2xx"}
    \/ sResp.http = "ok" /\ sResp.errors
    \/ sResp.http = "ok" /\ ~(sResp.data = "object" /\ sResp.vault)
    \/ sSendOutcome = "error"

C2_ErrorsPropagate ==
    /\ sSendAttempts <= 1
    /\ ShotErrorOccurred => (sPc = "failed" /\ sErr # "none")
    /\ sPc = "done" =>
          ( /\ ShotConfigOk(envToken, envChat)
            /\ GoodResp(sResp)
            /\ sSendOutcome = "ok"
            /\ sSendAttempts = 1
            /\ sErr = "none" )
    /\ sResp.http = "non2xx" => sErr = "HTTPStatusError"
    /\ sSendOutcome = "error" => sErr = "TelegramError"

C2_Witness ==
    /\ sPc = "failed"
    /\ sSendOutcome = "error"
    /\ sErr = "TelegramError"
    /\ sSendAttempts = 1

(* C3: in both variants a message is built and sent only when the provider *)
(* answered with a success status, without an `errors` entry and with the  *)
(* vault object; an `errors` entry ends the cycle before any vault or      *)
(* market field is read, also when `data` is complete; without the vault   *)
(* object the cycle ends and nothing is sent.                              *)
C3_SendOnlyOnGoodAnswer ==
    /\ (sMsg # None \/ sSendAttempts > 0) => GoodResp(sResp)
    /\ (sResp.http = "ok" /\ sResp.errors) =>
          (~sFieldsRead /\ sPc = "failed" /\ sMsg = None /\ sSendAttempts = 0)
    /\ (sResp.http = "ok" /\ ~(sResp.data = "object" /\ sResp.vault)) =>
          (sPc = "failed" /\ sMsg = None /\ sSendAttempts = 0)
    /\ \A i \in Cycles :
          (cycles[i].pc = "sending" \/ cycles[i].msg # None)
              => GoodResp(cycles[i].resp)
    /\ (lastDone.result \in {"sent", "send_failed"} \/ lastDone.msg # None)
          => GoodResp(lastDone.resp)
    /\ (lastDone.resp.http = "ok" /\ lastDone.resp.errors) =>
          (~lastDone.read /\ lastDone.result = "no_data" /\ lastDone.msg = None)
    /\ (lastDone.resp.http = "ok"
            /\ ~(lastDone.resp.data = "object" /\ lastDone.resp.vault)) =>
          (lastDone.result \in {"no_data", "no_vault"} /\ lastDone.msg = None)

C3_Witness ==
    /\ lastDone.resp.errors
    /\ Complete(lastDone.resp)
    /\ lastDone.result = "no_data"
    /\ ~lastDone.read

(* C4: in both variants, when the provider's answer has the vault object   *)
(* and no market object, the cycle goes on: a message with the vault       *)
(* sections and without the market sections is sent.                       *)
DegradedMessage(msg) ==
    /\ msg # None
    /\ VaultSections \subseteq msg[1].sections
    /\ msg[1].sections \cap (MarketSections \cup HistMarketSections) = {}

C4_MarketAbsentDegrades ==
    /\ ( /\ sPc \in {"sending", "done", "failed"}
         /\ GoodResp(sResp)
         /\ sResp.market = "absent" )
       => ( /\ DegradedMessage(sMsg)
            /\ sPc = "failed" => sSendOutcome = "error" )
    /\ ( /\ lastDone.n > 0
         /\ GoodResp(lastDone.resp)
         /\ lastDone.resp.market = "absent" )
       => ( /\ DegradedMessage(lastDone.msg)
            /\ lastDone.result \in {"sent", "send_failed"} )

(* C5: in the long-running variant no two executions of send_update are in *)
(* flight together: the timer is armed only after the initial cycle has    *)
(* ended, a tick that finds a cycle running starts none, and a tick that   *)
(* finds none running starts one.                                          *)
C5_SingleFlight ==
    /\ [](Cardinality(InFlight) <= 1)
    /\ [](timerArmed => cycles[1].pc \in Ended \cup {"cancelled"})
    /\ [][nStarted' > nStarted => InFlight = {}]_vars
    /\ [][TickSkip => (InFlight # {} /\ cycles' = cycles /\ nStarted' = nStarted)]_vars
    /\ [][(TickStart /\ InFlight = {}) =>
            (nStarted' = nStarted + 1 /\ InFlight' = {nStarted + 1})]_vars
    /\ []( ( /\ bPc = "running"
             /\ timerArmed
             /\ InFlight = {}
             /\ nStarted < MaxCycles )
           => ENABLED TickStart )

C5_Witness ==
    /\ lastTick = "skipped"
    /\ Cardinality(InFlight) = 1
    /\ cycles[2].pc = "sending"
    /\ bPc = "running"

(* C6: in the long-running variant an interrupt received while Running     *)
(* ends in an orderly shutdown: scheduler.shutdown() has disarmed the      *)
(* timer, the cycle in flight has been left to finish, and the HTTP client *)
(* has been closed.                                                        *)
C6_OrderlyShutdown ==
    interruptedAt = "running" =>
        /\ schedulerShutdown
        /\ ~timerArmed
        /\ clientClosed
        /\ \A i \in Cycles : cycles[i].pc # "cancelled"

(* C9 as stated: in both variants an absent bot token or an absent channel *)
(* id fails the startup before any request, send or scheduling.            *)
NothingStarted ==
    /\ sPc \in {"start", "failed"}
    /\ sRequests = 0
    /\ sSendAttempts = 0
    /\ bPc \in {"init", "config_error"}
    /\ nStarted = 0
    /\ ~timerArmed

C9_MissingSettingFailsFast ==
    (envToken = "absent" \/ envChat = "absent") => NothingStarted

(* C9 as amended: the single-shot variant fails the startup when the token *)
(* or the channel id is absent or empty; the long-running variant fails it *)
(* when the token is absent or empty, and replaces an absent channel id by *)
(* the default "@machilassab"; no cycle of either runs without a token.    *)
C9_TokenRequiredChatDefaulted ==
    /\ (prog = "shot" /\ (envToken # "set" \/ envChat # "set")) =>
          (NothingStarted /\ (sPc = "failed" => sErr = "ValueError"))
    /\ (prog = "bot" /\ envToken # "set") => NothingStarted
    /\ (prog = "bot" /\ envToken = "set" /\ bPc # "init") =>
          /\ bPc # "config_error"
          /\ nStarted >= 1
          /\ chatId = (IF envChat = "absent" THEN "@machilassab" ELSE envChat)
    /\ lastDone.n > 0 => lastDone.chat = chatId

C9_Witness ==
    /\ prog = "bot"
    /\ envChat = "absent"
    /\ lastDone.result = "sent"
    /\ lastDone.chat = "@machilassab"

(* C10: in the single-shot message each of the nine window lines is "N/A"  *)
(* exactly when its delta or average is undefined; a defined average is    *)
(* rendered by format_pct whatever its value, a defined delta by the       *)
(* signed formats.                                                         *)
C10_PlaceholderIffUndefined ==
    sMsg # None =>
        LET total == Frac(sResp.total, Pow10(TokenDecimals - RawUnitExp))
            lineOf(avg) == IF avg = None THEN << "N/A" >> ELSE format_pct(avg[1])
        IN  \A i \in 1..3 :
              LET delta == compute_delta(total, Window(sResp.hist.assets, Windows[i]),
                                         TokenDecimals)
                  apy == compute_average(Window(sResp.hist.apy, Windows[i]), 0)
                  borrow == compute_average(Window(sResp.hist.borrow, Windows[i]), 0)
              IN  /\ sMsg[1].changes[i] =
                        (IF delta = None THEN << "N/A" >>
                         ELSE << "delta", format_delta_pct(delta[1][2]),
                                 format_delta(delta[1][1]) >>)
                  /\ sMsg[1].avg_apy[i] = lineOf(apy)
                  /\ sMsg[1].avg_borrow[i] = lineOf(borrow)

====
